---- MODULE Spec2Model ----
(***************************************************************************)
(* State-machine model of SLUSDCrawler (src/web_crawler_regex.py): the     *)
(* crawl loop of crawl_site, the frontier (url_queue, visited_urls), the   *)
(* findings store (CSV file), the checkpoint (progress file) and main().   *)
(*                                                                         *)
(* The program is sequential; pc is the position of the single thread.     *)
(* The web site is the environment: every fetch, parse and match outcome   *)
(* and every set of links is chosen nondeterministically when the program  *)
(* asks for it.  Writes to the two local files are assumed to succeed.     *)
(* Timestamps (datetime.now()) are left out of rows and checkpoints.       *)
(***************************************************************************)
EXTENDS Integers, Sequences, FiniteSets, TLC

----------------------------------------------------------------------------
(* Bounds of the model                                                     *)

\* largest page budget passed to crawl_site that is explored
MaxBudget == 3

\* largest number of successive processes (runs of main) against the files
MaxRuns == 2

\* pages of the chain site, beyond its root
ChainLen == 100

\* save_progress is called when the counter is a multiple of this
ProgressEvery == 50

----------------------------------------------------------------------------
VARIABLES
  pc,            \* position of the thread in main() / crawl_site()
  runs,          \* number of processes started so far
  max_pages,     \* the page budget passed to crawl_site
  site,          \* the URLs the site's pages may link to
  variant,       \* which of the two programs runs: "baseline" or "fast"
  crawl_base,    \* the base_url the crawler was constructed with
  layout,        \* how the site's pages link: "any", "exact" or "chain"
  pdf_docs,      \* the documents the site may serve for a PDF request
  call_arg,      \* the argument of a function called on its own
  call_ret,      \* what that call returned
  url_queue,     \* crawl_site's local deque
  visited_urls,  \* self.visited_urls
  pages_crawled, \* crawl_site's local counter
  current_url,   \* crawl_site's local current_url
  links,         \* the links of the current page not yet iterated over
  found_pages,   \* self.found_pages
  found_pdfs,    \* self.found_pdfs
  result,        \* record_finding's local result
  rec_ret,       \* where the thread continues when record_finding returns
  csv_exists,    \* os.path.exists(self.output_file)
  csv_file,      \* the rows of self.output_file
  progress_file, \* the content of self.progress_file: <<>> or one record
  dequeued,      \* history: the URLs popped from url_queue, in order
  enq_order,     \* history: the URLs put into url_queue, in order
  recorded,      \* history: the results of record_finding calls, in order
  in_record,     \* history: a record_finding call began and has not returned
  rows_at_start, \* history: the number of rows in the file at construction
  event,         \* history: what the last step met (an error kind or "none")
  fetch_of,      \* history: the URL the last step requested, or NoUrl
  parse_attempts, \* history: the parser attempts the last step made
  failed_urls,   \* history: the URLs whose fetch has failed in this run
  slept,         \* history: the iteration of the last dequeue ended in sleep
  dup_offered    \* history: a link was refused as already visited or queued

vars == <<pc, runs, max_pages, site, variant, crawl_base, layout, pdf_docs,
          call_arg, call_ret, url_queue, visited_urls, pages_crawled,
          current_url, links, found_pages, found_pdfs, result, rec_ret,
          csv_exists, csv_file, progress_file, dequeued, enq_order, recorded,
          in_record, rows_at_start, event, fetch_of, parse_attempts,
          failed_urls, slept, dup_offered>>

frontier == <<url_queue, visited_urls, pages_crawled, current_url, links,
              dequeued, enq_order>>

memfind == <<found_pages, found_pdfs, result, rec_ret, recorded, in_record>>

hist == <<dup_offered, failed_urls, slept>>

files == <<csv_exists, csv_file, progress_file, rows_at_start>>

env == <<runs, max_pages, site, variant, crawl_base, layout, pdf_docs,
         call_arg, call_ret>>

----------------------------------------------------------------------------
(* URLs.  A URL is the string the program holds; netloc gives the labels   *)
(* of urlparse(url).netloc and Suffix the last four characters.            *)

base_url == "https://www.slusd.us"

PageA == "https://www.slusd.us/a"

PageB == "https://docs.slusd.us/b"

DocPdf == "https://www.slusd.us/doc.PDF"

Offsite == "https://evil.com/x"

Urls == {base_url, PageA, PageB, DocPdf, Offsite}

\* another site: SLUSDCrawler(base_url=OtherBase)
OtherBase == "https://www.example.org"

OtherPage == "https://www.example.org/a"

\* an image of the site
AssetUrl == "https://www.slusd.us/images/a.PNG"

\* a content page, a document kept under /images/ and a style sheet
AboutUrl == "https://www.slusd.us/about-us"

ImagePdf == "https://www.slusd.us/images/map.pdf"

StyleUrl == "https://www.slusd.us/style.css"

\* the pages of a long site: https://www.slusd.us/p1, /p2, ...
ChainUrl == [i \in 1..ChainLen |-> "https://www.slusd.us/p" \o ToString(i)]

ChainUrls == {ChainUrl[i] : i \in 1..ChainLen}

NoUrl == ""

netloc(url) ==
  CASE url = base_url -> <<"www", "slusd", "us">>
    [] url = PageA    -> <<"www", "slusd", "us">>
    [] url = PageB    -> <<"docs", "slusd", "us">>
    [] url = DocPdf   -> <<"www", "slusd", "us">>
    [] url = Offsite  -> <<"evil", "com">>
    [] url = OtherBase -> <<"www", "example", "org">>
    [] url = OtherPage -> <<"www", "example", "org">>
    [] url = AssetUrl  -> <<"www", "slusd", "us">>
    [] url = AboutUrl  -> <<"www", "slusd", "us">>
    [] url = ImagePdf  -> <<"www", "slusd", "us">>
    [] url = StyleUrl  -> <<"www", "slusd", "us">>
    [] url \in ChainUrls -> <<"www", "slusd", "us">>
    [] OTHER          -> <<>>

Suffix(url) ==
  CASE url = DocPdf -> ".PDF"
    [] url = PageA  -> "s/a"
    [] url = PageB  -> "s/b"
    [] url = Offsite -> "m/x"
    [] url = OtherBase -> ".org"
    [] url = OtherPage -> "g/a"
    [] url = AssetUrl -> ".PNG"
    [] url = AboutUrl -> "t-us"
    [] url = ImagePdf -> ".pdf"
    [] url = StyleUrl -> ".css"
    [] url \in ChainUrls -> "/p.."
    [] OTHER        -> "d.us"

lower(s) == IF s = ".PDF" THEN ".pdf" ELSE s

\* self.domain = urlparse(base_url).netloc
domain == netloc(crawl_base)

\* netloc.endswith('.slusd.us'): a non-empty prefix ending in a dot, then
\* the labels slusd and us
EndsWithSlusdUs(labels) ==
  /\ Len(labels) >= 3
  /\ labels[Len(labels) - 1] = "slusd"
  /\ labels[Len(labels)] = "us"

is_valid_url(url) ==
  \/ netloc(url) = domain
  \/ netloc(url) = <<>>
  \/ EndsWithSlusdUs(netloc(url))

\* the suffix compared without lower()
IsPdfLink_CaseSensitive(link) == Suffix(link) = ".pdf"

\* link.lower().endswith('.pdf')
IsPdfLink(link) == lower(Suffix(link)) = ".pdf"

----------------------------------------------------------------------------
(* Text.  A text is a sequence of one-character strings.  A compiled       *)
(* pattern is a tree; Ends gives the positions at which a match that       *)
(* starts at position i may end, in the order in which the backtracking    *)
(* matcher of re tries them (greedy first), so its head is the match.      *)

LowerCase(c) ==
  CASE c = "E" -> "e" [] c = "S" -> "s" [] c = "T" -> "t" [] c = "H" -> "h"
    [] c = "A" -> "a" [] c = "R" -> "r" [] c = "J" -> "j" [] c = "U" -> "u"
    [] c = "N" -> "n" [] c = "I" -> "i" [] c = "P" -> "p" [] c = "O" -> "o"
    [] c = "X" -> "x" [] c = "D" -> "d" [] c = "F" -> "f" [] c = "C" -> "c"
    [] c = "G" -> "g" [] c = "L" -> "l" [] c = "M" -> "m" [] c = "W" -> "w"
    [] OTHER -> c

Letters == {"a", "c", "d", "e", "f", "g", "h", "i", "j", "l", "m", "n", "o",
            "p", "r", "s", "t", "u", "w", "x"}

Digits == {"0", "1", "2", "3", "4", "5", "6", "7", "8", "9"}

\* \w
IsWord(c) == LowerCase(c) \in Letters \cup Digits \cup {"_"}

\* \s
IsSpace(c) == c \in {" ", "\n", "\t"}

\* re.IGNORECASE: characters are compared after case folding
SameChar(a, b) == LowerCase(a) = LowerCase(b)

Lit(chars) == <<"lit", chars>>

Spaces == <<"spaces">>

Opt(r) == <<"opt", r>>

Cat(rs) == <<"cat", rs>>

Alt(rs) == <<"alt", rs>>

NotWord == <<"notword">>

AtEnd == <<"end">>

\* the number of whitespace characters of t from position i on
RECURSIVE SpaceRun(_, _)
SpaceRun(t, i) ==
  IF i <= Len(t) /\ IsSpace(t[i]) THEN 1 + SpaceRun(t, i + 1) ELSE 0

RECURSIVE Ends(_, _, _)
RECURSIVE EndsCat(_, _, _)
RECURSIVE EndsAlt(_, _, _)
RECURSIVE EndsFrom(_, _, _)

\* the ends of the matches of the pattern r of the text t from position i
Ends(r, t, i) ==
  CASE r[1] = "lit" ->
         IF /\ i + Len(r[2]) - 1 <= Len(t)
            /\ \A k \in 1..Len(r[2]) : SameChar(t[i + k - 1], r[2][k])
           THEN <<i + Len(r[2])>>
           ELSE <<>>
    [] r[1] = "spaces" ->
         \* \s* is greedy: the longest run first, then shorter ones
         LET n == SpaceRun(t, i) IN [k \in 1..(n + 1) |-> i + n + 1 - k]
    [] r[1] = "opt" -> Ends(r[2], t, i) \o <<i>>
    [] r[1] = "cat" -> EndsCat(r[2], t, i)
    [] r[1] = "alt" -> EndsAlt(r[2], t, i)
    [] r[1] = "notword" ->
         IF i <= Len(t) /\ IsWord(t[i]) THEN <<>> ELSE <<i>>
    [] r[1] = "end" ->
         IF i = Len(t) + 1 \/ (i = Len(t) /\ t[i] = "\n") THEN <<i>> ELSE <<>>

\* a sequence of patterns, one after the other
EndsCat(rs, t, i) ==
  IF rs = <<>> THEN <<i>>
  ELSE EndsFrom(Tail(rs), t, Ends(Head(rs), t, i))

\* the rest rs tried from each of the positions in turn
EndsFrom(rs, t, positions) ==
  IF positions = <<>> THEN <<>>
  ELSE EndsCat(rs, t, Head(positions)) \o EndsFrom(rs, t, Tail(positions))

\* alternatives, the first one first
EndsAlt(rs, t, i) ==
  IF rs = <<>> THEN <<>>
  ELSE Ends(Head(rs), t, i) \o EndsAlt(Tail(rs), t, i)

NoMatch == [found |-> FALSE, group |-> <<>>, start |-> 0]

\* pattern.search(text): the match at the leftmost position that has one
RECURSIVE SearchFrom(_, _, _)
SearchFrom(r, t, i) ==
  IF i > Len(t) + 1 THEN NoMatch
  ELSE LET ends == Ends(r, t, i) IN
       IF ends # <<>>
         THEN [found |-> TRUE, group |-> SubSeq(t, i, Head(ends) - 1),
               start |-> i]
         ELSE SearchFrom(r, t, i + 1)

Search(r, t) == SearchFrom(r, t, 1)

\* needle in text
Contains(t, needle) ==
  \E i \in 1..(Len(t) - Len(needle) + 1) :
    SubSeq(t, i, i + Len(needle) - 1) = needle

\* self.address_patterns of web_crawler_regex.py, compiled with IGNORECASE
address_patterns_835 ==
  << Cat(<<Lit(<<"8", "3", "5">>),
           Spaces,
           Opt(Cat(<<Cat(<<Lit(<<"E">>), Opt(Lit(<<".">>))>>), Spaces>>)),
           Lit(<<"1", "4", "t">>), Opt(Lit(<<"h">>)),
           Spaces,
           Opt(Cat(<<Lit(<<"S", "t">>), Opt(Lit(<<".">>))>>)),
           NotWord>>),
     Cat(<<Lit(<<"8", "3", "5">>),
           Spaces,
           Cat(<<Lit(<<"E">>), Opt(Lit(<<".">>))>>),
           Spaces,
           Lit(<<"1", "4", "t">>), Opt(Lit(<<"h">>)),
           Spaces,
           Cat(<<Lit(<<"S", "t">>), Opt(Lit(<<".">>))>>)>>),
     Cat(<<Lit(<<"8", "3", "5">>),
           Spaces,
           Cat(<<Lit(<<"E">>), Opt(Lit(<<".">>))>>),
           Spaces,
           Lit(<<"1", "4">>),
           Spaces,
           Cat(<<Lit(<<"S", "t">>), Opt(Lit(<<".">>))>>)>>),
     Cat(<<Lit(<<"8", "3", "5">>),
           Spaces,
           Lit(<<"1", "4", "t">>), Opt(Lit(<<"h">>)),
           Spaces,
           Cat(<<Lit(<<"S", "t">>), Opt(Lit(<<".">>))>>)>>),
     Cat(<<Lit(<<"8", "3", "5">>),
           Spaces,
           Lit(<<"1", "4", "t">>), Opt(Lit(<<"h">>)),
           NotWord>>),
     Cat(<<Lit(<<"8", "3", "5">>),
           Spaces,
           Lit(<<"E", "a", "s", "t">>),
           Spaces,
           Lit(<<"1", "4", "t">>), Opt(Lit(<<"h">>)),
           Spaces,
           Opt(Alt(<<Cat(<<Lit(<<"S", "t">>), Opt(Lit(<<".">>))>>), Lit(<<"S", "t", "r", "e", "e", "t">>)>>))>>),
     Cat(<<Lit(<<"8", "3", "5">>),
           Spaces,
           Lit(<<"E">>),
           Spaces,
           Lit(<<"1", "4">>),
           NotWord>>) >>

\* self.address_patterns of web_crawler_regex_fast_juniper.py
address_patterns_juniper ==
  << Cat(<<Lit(<<"1", "4", "7", "3", "5">>),
           Spaces,
           Lit(<<"J", "u", "n", "i", "p", "e", "r">>),
           Spaces,
           Opt(Alt(<<Cat(<<Lit(<<"S", "t">>), Opt(Lit(<<".">>))>>), Lit(<<"S", "t", "r", "e", "e", "t">>)>>)),
           NotWord>>),
     Cat(<<Lit(<<"1", "4", "7", "3", "5">>),
           Spaces,
           Lit(<<"J", "u", "n", "i", "p", "e", "r">>),
           Spaces,
           Cat(<<Lit(<<"S", "t">>), Opt(Lit(<<".">>))>>)>>),
     Cat(<<Lit(<<"1", "4", "7", "3", "5">>),
           Spaces,
           Lit(<<"J", "u", "n", "i", "p", "e", "r">>),
           Spaces,
           Lit(<<"S", "t", "r", "e", "e", "t">>)>>),
     Cat(<<Lit(<<"1", "4", "7", "3", "5">>),
           Spaces,
           Lit(<<"J", "u", "n", "i", "p", "e", "r">>),
           NotWord>>),
     Cat(<<Lit(<<"1", "4", "7", "3", "5">>),
           Spaces,
           Opt(Cat(<<Cat(<<Lit(<<"N">>), Opt(Lit(<<".">>))>>), Spaces>>)),
           Lit(<<"J", "u", "n", "i", "p", "e", "r">>),
           Spaces,
           Opt(Alt(<<Cat(<<Lit(<<"S", "t">>), Opt(Lit(<<".">>))>>), Lit(<<"S", "t", "r", "e", "e", "t">>)>>))>>),
     Cat(<<Lit(<<"1", "4", "7", "3", "5">>),
           Spaces,
           Lit(<<"N", "o", "r", "t", "h">>),
           Spaces,
           Lit(<<"J", "u", "n", "i", "p", "e", "r">>),
           Spaces,
           Opt(Alt(<<Cat(<<Lit(<<"S", "t">>), Opt(Lit(<<".">>))>>), Lit(<<"S", "t", "r", "e", "e", "t">>)>>))>>),
     Cat(<<Lit(<<"1", "4", "7", "3", "5">>),
           Spaces,
           Lit(<<"N">>),
           Spaces,
           Lit(<<"J", "u", "n", "i", "p", "e", "r">>),
           NotWord>>) >>

\* the characters of a URL
Chars(url) ==
  CASE url = base_url ->
         <<"h", "t", "t", "p", "s", ":", "/", "/", "w", "w", "w", ".", "s", "l", "u", "s", "d", ".", "u", "s">>
    [] url = PageA ->
         <<"h", "t", "t", "p", "s", ":", "/", "/", "w", "w", "w", ".", "s", "l", "u", "s", "d", ".", "u", "s", "/", "a">>
    [] url = PageB ->
         <<"h", "t", "t", "p", "s", ":", "/", "/", "d", "o", "c", "s", ".", "s", "l", "u", "s", "d", ".", "u", "s", "/", "b">>
    [] url = DocPdf ->
         <<"h", "t", "t", "p", "s", ":", "/", "/", "w", "w", "w", ".", "s", "l", "u", "s", "d", ".", "u", "s", "/", "d", "o", "c", ".", "P", "D", "F">>
    [] url = Offsite ->
         <<"h", "t", "t", "p", "s", ":", "/", "/", "e", "v", "i", "l", ".", "c", "o", "m", "/", "x">>
    [] url = OtherBase ->
         <<"h", "t", "t", "p", "s", ":", "/", "/", "w", "w", "w", ".", "e", "x", "a", "m", "p", "l", "e", ".", "o", "r", "g">>
    [] url = OtherPage ->
         <<"h", "t", "t", "p", "s", ":", "/", "/", "w", "w", "w", ".", "e", "x", "a", "m", "p", "l", "e", ".", "o", "r", "g", "/", "a">>
    [] url = AssetUrl ->
         <<"h", "t", "t", "p", "s", ":", "/", "/", "w", "w", "w", ".", "s", "l", "u", "s", "d", ".", "u", "s", "/", "i", "m", "a", "g", "e", "s", "/", "a", ".", "P", "N", "G">>
    [] url = AboutUrl ->
         <<"h", "t", "t", "p", "s", ":", "/", "/", "w", "w", "w", ".", "s", "l", "u", "s", "d", ".", "u", "s", "/", "a", "b", "o", "u", "t", "-", "u", "s">>
    [] url = ImagePdf ->
         <<"h", "t", "t", "p", "s", ":", "/", "/", "w", "w", "w", ".", "s", "l", "u", "s", "d", ".", "u", "s", "/", "i", "m", "a", "g", "e", "s", "/", "m", "a", "p", ".", "p", "d", "f">>
    [] url = StyleUrl ->
         <<"h", "t", "t", "p", "s", ":", "/", "/", "w", "w", "w", ".", "s", "l", "u", "s", "d", ".", "u", "s", "/", "s", "t", "y", "l", "e", ".", "c", "s", "s">>
    [] OTHER -> <<>>

\* self.skip_url_patterns, compiled with re.IGNORECASE
skip_url_patterns ==
  << Lit(<<"/", "c", "s", "s", "/">>),
     Lit(<<"/", "j", "s", "/">>),
     Lit(<<"/", "i", "m", "a", "g", "e", "s", "/">>),
     Lit(<<"/", "i", "m", "g", "/">>),
     Lit(<<"/", "a", "s", "s", "e", "t", "s", "/">>),
     Cat(<<Lit(<<".", "c", "s", "s">>), AtEnd>>),
     Cat(<<Lit(<<".", "j", "s">>), AtEnd>>),
     Cat(<<Lit(<<".", "p", "n", "g">>), AtEnd>>),
     Cat(<<Lit(<<".", "j", "p", "g">>), AtEnd>>),
     Cat(<<Lit(<<".", "j", "p", "e", "g">>), AtEnd>>),
     Cat(<<Lit(<<".", "g", "i", "f">>), AtEnd>>),
     Cat(<<Lit(<<".", "i", "c", "o">>), AtEnd>>),
     Cat(<<Lit(<<".", "w", "o", "f", "f">>), AtEnd>>),
     Cat(<<Lit(<<".", "w", "o", "f", "f", "2">>), AtEnd>>),
     Cat(<<Lit(<<".", "t", "t", "f">>), AtEnd>>),
     Cat(<<Lit(<<".", "e", "o", "t">>), AtEnd>>),
     Cat(<<Lit(<<".", "s", "v", "g">>), AtEnd>>),
     Cat(<<Lit(<<".", "w", "e", "b", "p">>), AtEnd>>),
     Lit(<<"/", "f", "e", "e", "d", "s", "/">>),
     Lit(<<"/", "r", "s", "s", "/">>),
     Lit(<<"/", "s", "i", "t", "e", "m", "a", "p">>),
     Cat(<<Lit(<<".", "x", "m", "l">>), AtEnd>>),
     Cat(<<Lit(<<".", "j", "s", "o", "n">>), AtEnd>>),
     Lit(<<"#">>),
     Lit(<<"j", "a", "v", "a", "s", "c", "r", "i", "p", "t", ":">>),
     Lit(<<"m", "a", "i", "l", "t", "o", ":">>),
     Lit(<<"t", "e", "l", ":">>),
     Lit(<<"f", "t", "p", ":">>) >>

KnownUrls ==
  Urls \cup {OtherBase, OtherPage, AssetUrl, AboutUrl, ImagePdf, StyleUrl}

\* pattern.match in place of pattern.search: only a match at the start
SkipPatternFound_Match(chars) ==
  \E i \in 1..Len(skip_url_patterns) :
    Ends(skip_url_patterns[i], chars, 1) # <<>>

\* the loop of should_skip_url over the characters of the URL: True at the
\* first pattern that pattern.search finds, False when none is found
SkipPatternFound(chars) ==
  \E i \in 1..Len(skip_url_patterns) :
    Search(skip_url_patterns[i], chars).found

\* should_skip_url of every URL, computed once
SkipAnswers == [url \in KnownUrls |-> SkipPatternFound(Chars(url))]

\* the URL texts should_skip_url is called with on its own: a host, a
\* directory, a name and an ending
SkipUrlTexts ==
  LET
      SkipHosts ==
        {<<"h", "t", "t", "p", "s", ":", "/", "/", "w", "w", "w", ".",
        "s", "l", "u", "s", "d", ".", "u", "s">>, <<"h", "t", "t", "p",
        "s", ":", "/", "/", "d", "o", "c", "s", ".", "s", "l", "u", "s",
        "d", ".", "u", "s">>}
      SkipDirs ==
        {<<>>, <<"/", "i", "m", "a", "g", "e", "s">>, <<"/", "i", "m",
        "g">>, <<"/", "n", "e", "w", "s">>}
      SkipNames ==
        {<<>>, <<"/">>, <<"/", "a">>, <<"/", "a", "b", "o", "u", "t", "-",
        "u", "s">>}
      SkipEndings ==
        {<<>>, <<".", "c", "s", "s">>, <<".", "j", "s">>, <<".", "p", "n",
        "g">>, <<".", "i", "c", "o">>, <<".", "C", "S", "S">>, <<".", "j",
        "s", "p">>, <<".", "h", "t", "m", "l">>, <<".", "c", "s", "s",
        "?", "v", "=", "1">>, <<".", "p", "d", "f">>}
  IN {h \o d \o n \o e :
        h \in SkipHosts, d \in SkipDirs, n \in SkipNames, e \in SkipEndings}

\* should_skip_url: some skip pattern is found in the URL
should_skip_url(url) == SkipAnswers[url]

----------------------------------------------------------------------------
(* The texts that are matched: a lead, a house number, a direction, a      *)
(* street number or name, a street word and a tail, with or without blanks *)
(* between them; and the empty text.                                       *)

LeadText == {<<>>, <<"a", "t", " ">>}

House835 == {<<"8", "3", "5">>, <<"8", "3">>}

Gap == {<<>>, <<" ">>}

Dir835 == {<<>>, <<"E">>, <<"E", ".">>, <<"E", "a", "s", "t">>, <<"e", ".">>}

Num835 == {<<"1", "4">>, <<"1", "4", "t">>, <<"1", "4", "t", "h">>, <<"1", "5", "t", "h">>}

Street == {<<>>, <<"S", "t">>, <<"S", "t", ".">>, <<"S", "t", "r", "e", "e", "t">>, <<"s", "t">>}

TailText == {<<>>, <<"x">>, <<".">>}

HouseJuniper == {<<"1", "4", "7", "3", "5">>, <<"1", "4", "7", "3">>}

DirJuniper == {<<>>, <<"N">>, <<"N", ".">>, <<"N", "o", "r", "t", "h">>, <<"n", ".">>}

NameJuniper == {<<"J", "u", "n", "i", "p", "e", "r">>, <<"j", "u", "n", "i", "p", "e", "r">>, <<"J", "u", "n", "i", "p", "e", "r", "s">>}

Texts835 ==
  { lead \o house \o g1 \o dir \o g2 \o num \o g3 \o street \o tail :
      lead \in LeadText, house \in House835, g1 \in Gap, dir \in Dir835,
      g2 \in Gap, num \in Num835, g3 \in Gap, street \in Street,
      tail \in TailText } \cup {<<>>}

TextsJuniper ==
  { lead \o house \o g1 \o dir \o g2 \o name \o g3 \o street \o tail :
      lead \in LeadText, house \in HouseJuniper, g1 \in Gap,
      dir \in DirJuniper, g2 \in Gap, name \in NameJuniper, g3 \in Gap,
      street \in Street, tail \in TailText } \cup {<<>>}

Variants == {"baseline", "fast"}

\* the texts explored for one of the two programs
Texts(v) == IF v = "fast" THEN TextsJuniper ELSE Texts835

\* self.address_patterns of the two programs
address_patterns(v) ==
  IF v = "fast" THEN address_patterns_juniper ELSE address_patterns_835

\* the pre-check looks for the other address, as its comment says
quick_check_Stale == <<"8", "3", "5">>

\* self.quick_check = '14735' (the fast program only)
quick_check == <<"1", "4", "7", "3", "5">>

\* what check_address_in_text returns when nothing is found: (False, None)
NotFound(tried) == [found |-> FALSE, matched_text |-> <<>>, tried |-> tried]

\* the for loop of check_address_in_text from the pattern number i on:
\* the first pattern that matches returns its match.group()
RECURSIVE CheckPatterns(_, _, _)
CheckPatterns(patterns, text, i) ==
  IF i > Len(patterns) THEN NotFound(Len(patterns))
  ELSE LET match == Search(patterns[i], text) IN
       IF match.found
         THEN [found |-> TRUE, matched_text |-> match.group, tried |-> i]
         ELSE CheckPatterns(patterns, text, i + 1)

\* the loop run from the last pattern down: the last pattern that matches
\* returns its match.group()
RECURSIVE CheckPatternsDown(_, _, _)
CheckPatternsDown(patterns, text, i) ==
  IF i < 1 THEN NotFound(Len(patterns))
  ELSE LET match == Search(patterns[i], text) IN
       IF match.found
         THEN [found |-> TRUE, matched_text |-> match.group, tried |-> i]
         ELSE CheckPatternsDown(patterns, text, i - 1)

\* the patterns are searched from the last to the first
check_address_in_text_LastWins(v, text) ==
  IF text = <<>> THEN NotFound(0)
  ELSE IF v = "fast" /\ ~Contains(text, quick_check) THEN NotFound(0)
  ELSE CheckPatternsDown(address_patterns(v), text,
                         Len(address_patterns(v)))

\* check_address_in_text: empty text, the quick pre-check of the fast
\* program, then the patterns in order
check_address_in_text(v, text) ==
  IF text = <<>> THEN NotFound(0)
  ELSE IF v = "fast" /\ ~Contains(text, quick_check) THEN NotFound(0)
  ELSE CheckPatterns(address_patterns(v), text, 1)

----------------------------------------------------------------------------
(* Documents.  What the site serves for a PDF request: the answer to the   *)
(* HEAD probe, the declared content length, the answer to GET, whether     *)
(* PdfReader accepts the body, and the pages; extract_text of a page       *)
(* returns its text or raises.                                             *)

MaxDocPages == 3

\* size_mb > 50
MaxPdfMb == 50

\* the divisor 1024 * 1024 of the content length
BytesPerMb == 1024 * 1024

Page(ok, text) == [ok |-> ok, text |-> text]

Doc(head, declared, length, get, reader, pages) ==
  [head |-> head, declared |-> declared, length |-> length, get |-> get,
   reader |-> reader, pages |-> pages]

\* page texts: pieces of the address, so that it can lie on one page or be
\* cut by a page boundary
PageTexts(v) ==
  IF v = "fast"
    THEN {<<>>, <<"1", "4", "7", "3", "5", " ">>,
          <<"J", "u", "n", "i", "p", "e", "r", " ", "S", "t">>,
          <<"1", "4", "7", "3", "5", " ", "J", "u", "n", "i", "p", "e", "r">>}
    ELSE {<<>>, <<"8", "3", "5", " ", "E">>,
          <<" ", "1", "4", "t", "h", " ", "S", "t">>,
          <<"8", "3", "5", " ", "E", " ", "1", "4", "t", "h">>}

Pages(v) == {Page(ok, text) : ok \in BOOLEAN, text \in PageTexts(v)}

\* the sequences of at most n pages
PageSeqs(v, n) == UNION {[1..k -> Pages(v)] : k \in 0..n}

PageMark == <<"1", "2", "3", "4", "5", "6", "7", "8", "9", "0">>

\* a document of ten pages of which pages 3 and 7 cannot be read
TenPages == [i \in 1..10 |-> Page(i \notin {3, 7}, <<PageMark[i]>>)]

\* the declared content lengths: none, the ceiling, one byte more
Lengths ==
  {<<FALSE, 0>>, <<TRUE, MaxPdfMb * BytesPerMb>>,
   <<TRUE, MaxPdfMb * BytesPerMb + 1>>}

Docs(v) ==
  {Doc("ok", l[1], l[2], "ok", "ok", pages) :
     l \in Lengths, pages \in PageSeqs(v, MaxDocPages) \cup {TenPages}}
  \cup {Doc(head, FALSE, 0, get, reader, <<>>) :
          head \in {"ok", "error"}, get \in {"ok", "error"},
          reader \in {"ok", "error"}}

\* what check_pdf_content returns, with the requests it issued, how it left
\* ("read", "skipped" for size, "error" for the outer except) and the texts
\* it gave to check_address_in_text
PdfResult(found, matched_text, requests, outcome, checked) ==
  [found |-> found, matched_text |-> matched_text, requests |-> requests,
   outcome |-> outcome, checked |-> checked]

\* a page that cannot be read discards the text read so far
AddPage_Resets(text_content, page) ==
  IF page.ok THEN text_content \o page.text ELSE <<>>

\* text_content += page.extract_text(), or continue when it raises
AddPage(text_content, page) ==
  IF page.ok THEN text_content \o page.text ELSE text_content

\* the page loop of the baseline check_pdf_content
RECURSIVE ReadPages(_, _)
ReadPages(pages, text_content) ==
  IF pages = <<>> THEN text_content
  ELSE ReadPages(Tail(pages), AddPage(text_content, Head(pages)))

\* the page loop of the fast check_pdf_content: a page that can be read and
\* holds quick_check is matched, and the first match returns
RECURSIVE ScanPages(_, _)
ScanPages(pages, checked) ==
  IF pages = <<>> THEN PdfResult(FALSE, <<>>, <<"HEAD", "GET">>, "read", checked)
  ELSE LET page == Head(pages) IN
       IF page.ok /\ Contains(page.text, quick_check)
         THEN LET r == check_address_in_text("fast", page.text) IN
              IF r.found
                THEN PdfResult(TRUE, r.matched_text, <<"HEAD", "GET">>,
                               "read", Append(checked, page.text))
                ELSE ScanPages(Tail(pages), Append(checked, page.text))
         ELSE ScanPages(Tail(pages), checked)

check_pdf_content_baseline(doc) ==
  IF doc.get # "ok" \/ doc.reader # "ok"
    THEN PdfResult(FALSE, <<>>, <<"GET">>, "error", <<>>)
    ELSE LET text_content == ReadPages(doc.pages, <<>>)
             r == check_address_in_text("baseline", text_content)
         IN PdfResult(r.found, r.matched_text, <<"GET">>, "read",
                      <<text_content>>)

\* size_mb >= 50 in place of size_mb > 50
TooLarge_Inclusive(doc) ==
  doc.declared /\ doc.length >= MaxPdfMb * BytesPerMb

\* a content-length header is present and
\* int(content-length) / (1024 * 1024) > 50
TooLarge(doc) ==
  doc.declared /\ doc.length > MaxPdfMb * BytesPerMb

\* only the first page is scanned
check_pdf_content_fast_FirstPage(doc) ==
  IF doc.head # "ok"
    THEN PdfResult(FALSE, <<>>, <<"HEAD">>, "error", <<>>)
  ELSE IF TooLarge(doc)
    THEN PdfResult(FALSE, <<>>, <<"HEAD">>, "skipped", <<>>)
  ELSE IF doc.get # "ok" \/ doc.reader # "ok"
    THEN PdfResult(FALSE, <<>>, <<"HEAD", "GET">>, "error", <<>>)
  ELSE ScanPages(SubSeq(doc.pages, 1, 1), <<>>)

\* check_pdf_content of the fast program: the HEAD probe and the size
\* ceiling, the download, then the pages one by one
check_pdf_content_fast(doc) ==
  IF doc.head # "ok"
    THEN PdfResult(FALSE, <<>>, <<"HEAD">>, "error", <<>>)
  ELSE IF TooLarge(doc)
    THEN PdfResult(FALSE, <<>>, <<"HEAD">>, "skipped", <<>>)
  ELSE IF doc.get # "ok" \/ doc.reader # "ok"
    THEN PdfResult(FALSE, <<>>, <<"HEAD", "GET">>, "error", <<>>)
  ELSE ScanPages(doc.pages, <<>>)

check_pdf_content(v, doc) ==
  IF v = "fast" THEN check_pdf_content_fast(doc)
  ELSE check_pdf_content_baseline(doc)

\* documents a crawled site serves: one whose download fails, one that
\* PdfReader rejects, one without the address, and one whose first page is
\* without the address and whose second page holds it
DocDownloadFails == Doc("ok", FALSE, 0, "error", "ok", <<>>)

DocUnreadable == Doc("ok", FALSE, 0, "ok", "error", <<>>)

\* a page text with the house number and no address
PieceText(v) ==
  IF v = "fast" THEN <<"1", "4", "7", "3", "5", " ">>
  ELSE <<"8", "3", "5", " ", "E">>

\* a page text with the address
AddressText(v) ==
  IF v = "fast"
    THEN <<"1", "4", "7", "3", "5", " ", "J", "u", "n", "i", "p", "e", "r">>
    ELSE <<"8", "3", "5", " ", "E", " ", "1", "4", "t", "h">>

DocWithout(v) ==
  Doc("ok", FALSE, 0, "ok", "ok", <<Page(TRUE, PieceText(v))>>)

DocWith(v) ==
  Doc("ok", FALSE, 0, "ok", "ok",
      <<Page(TRUE, PieceText(v)), Page(TRUE, AddressText(v))>>)

CrawlDocs(v) == {DocDownloadFails, DocUnreadable, DocWithout(v), DocWith(v)}

MaxLeafPages == 2

\* the pages of a linked document: readable or not, with or without the
\* address
LeafPages(v) ==
  {Page(ok, text) : ok \in BOOLEAN, text \in {PieceText(v), AddressText(v)}}

\* downloadable documents of at most MaxLeafPages + 1 pages in which a
\* readable page other than the first holds the address
LaterPageDocs(v) ==
  {Doc("ok", FALSE, 0, "ok", "ok", pages) :
     pages \in {ps \in UNION {[1..k -> LeafPages(v)] :
                                k \in 2..(MaxLeafPages + 1)} :
                  \E i \in 2..Len(ps) :
                    /\ ps[i].ok
                    /\ CheckPatterns(address_patterns(v), ps[i].text, 1).found}}

ServedDocs(v) == CrawlDocs(v) \cup LaterPageDocs(v)

\* check_pdf_content of each served document, computed once
PdfAnswers ==
  [v \in Variants |-> [doc \in ServedDocs(v) |-> check_pdf_content(v, doc)]]

\* the HEAD probe or the GET of check_pdf_content raised
DownloadFails(v, doc) ==
  \/ v = "fast" /\ doc.head # "ok"
  \/ /\ \E i \in 1..Len(PdfAnswers[v][doc].requests) :
          PdfAnswers[v][doc].requests[i] = "GET"
     /\ doc.get # "ok"

\* what the crawl loop notes of a check_pdf_content call
PdfEvent(r) ==
  CASE r.outcome = "error"   -> "pdf_error"
    [] r.outcome = "skipped" -> "pdf_skipped"
    [] OTHER                 -> "none"

----------------------------------------------------------------------------
(* Rows of the findings store and the checkpoint record                    *)

Header == [URL |-> "URL", Type |-> "Type", Notes |-> "Notes",
           ParentPage |-> "Parent Page"]

\* the parent_page argument is dropped: 'Parent Page' is always empty
Result_NoParent(url, content_type, notes, parent_page) ==
  [URL |-> url, Type |-> content_type, Notes |-> notes, ParentPage |-> NoUrl]

Result(url, content_type, notes, parent_page) ==
  [URL |-> url, Type |-> content_type, Notes |-> notes,
   ParentPage |-> parent_page]

\* a row left in the file by an earlier use of the crawler
OldRow == Result(PageA, "HTML Page", "HTML page content", NoUrl)

----------------------------------------------------------------------------
(* Files                                                                   *)

\* the header written without the os.path.exists test
init_csv_file_Unconditional(exists, rows) == <<Header>>

\* init_csv_file: write the header only when the file does not exist
init_csv_file(exists, rows) == IF ~exists THEN <<Header>> ELSE rows

\* the file opened in mode 'w' in place of 'a'
append_to_csv_Truncating(rows, r) == <<r>>

\* append_to_csv: open in append mode and write one row
append_to_csv(rows, r) == Append(rows, r)

\* save_progress: overwrite the progress file with one snapshot
save_progress(crawled, url, pages, pdfs) ==
  << [pages_crawled |-> crawled, current_url |-> url,
      found_pages |-> Len(pages), found_pdfs |-> Len(pdfs)] >>

----------------------------------------------------------------------------
(* Outcomes the environment chooses                                        *)

\* get_page_content: an exception of requests, any other exception (such as
\* an unknown charset when decoding), an empty body, a body served with a
\* pdf content type, any other body
FetchOutcomes == {"network_error", "decode_error", "empty", "pdf", "html"}

FetchFailures == {"network_error", "decode_error", "empty"}

ErrorEvents == FetchFailures \cup {"pdf_error", "parse_error", "exception"}

RunningPcs == {"loop", "fetch", "direct_pdf", "parse", "match", "extract",
               "links", "record_csv", "sleep"}

TerminalPcs == {"Completed", "Interrupted", "Errored"}

----------------------------------------------------------------------------
(* Initial state: a process is about to run main(); the findings file is   *)
(* absent or was left by an earlier use of the crawler.                    *)

InitLocals ==
  /\ runs = 1
  /\ url_queue = <<>>
  /\ visited_urls = {}
  /\ pages_crawled = 0
  /\ current_url = NoUrl
  /\ links = {}
  /\ found_pages = <<>>
  /\ found_pdfs = <<>>
  /\ result = Header
  /\ rec_ret = "loop"
  /\ progress_file = <<>>
  /\ dequeued = <<>>
  /\ enq_order = <<>>
  /\ recorded = <<>>
  /\ in_record = FALSE
  /\ rows_at_start = 0
  /\ event = "none"
  /\ fetch_of = NoUrl
  /\ parse_attempts = <<>>
  /\ failed_urls = {}
  /\ slept = FALSE
  /\ dup_offered = FALSE

InitMem ==
  /\ pc = "new"
  /\ InitLocals

InitFiles ==
  \/ csv_exists = FALSE /\ csv_file = <<>>
  \/ csv_exists = TRUE /\ csv_file \in {<<Header>>, <<Header, OldRow>>}

\* no function is called on its own
NoCall ==
  /\ call_arg = <<>>
  /\ call_ret = NotFound(0)

\* main(): SLUSDCrawler() with the default base_url, the baseline program,
\* on a site whose pages may link to any of its URLs
DefaultCrawler ==
  /\ NoCall
  /\ variant = "baseline"
  /\ crawl_base = base_url
  /\ layout = "any"
  /\ pdf_docs = CrawlDocs("baseline")

\* no crawl: only the called function runs
NoCrawl ==
  /\ csv_exists = FALSE
  /\ csv_file = <<>>
  /\ max_pages = 1
  /\ site = {}
  /\ crawl_base = base_url
  /\ layout = "any"
  /\ pdf_docs = {}

Init ==
  /\ InitMem
  /\ InitFiles
  /\ DefaultCrawler
  /\ max_pages \in 1..MaxBudget
  /\ site = Urls

\* a step that requests nothing and parses nothing
Quiet ==
  /\ fetch_of' = NoUrl
  /\ parse_attempts' = <<>>

----------------------------------------------------------------------------
(* main() and SLUSDCrawler.__init__                                        *)

\* crawler = SLUSDCrawler(): fresh in-memory state, then init_csv_file()
Construct ==
  /\ pc = "new"
  /\ pc' = "start"
  /\ visited_urls' = {}
  /\ found_pages' = <<>>
  /\ found_pdfs' = <<>>
  /\ csv_file' = init_csv_file(csv_exists, csv_file)
  /\ csv_exists' = TRUE
  /\ rows_at_start' = Len(csv_file')
  /\ event' = "none"
  /\ Quiet
  /\ UNCHANGED <<url_queue, pages_crawled, current_url, links, dequeued,
                 enq_order, result, rec_ret, recorded, in_record,
                 progress_file, env, hist>>

\* crawl_site entry: url_queue = deque([self.base_url]); pages_crawled = 0
CrawlStart ==
  /\ pc = "start"
  /\ pc' = "loop"
  /\ url_queue' = <<crawl_base>>
  /\ enq_order' = <<crawl_base>>
  /\ pages_crawled' = 0
  /\ event' = "none"
  /\ Quiet
  /\ UNCHANGED <<visited_urls, current_url, links, dequeued, memfind, files,
                 env, hist>>

----------------------------------------------------------------------------
(* record_finding: append to the in-memory list, then append to the CSV    *)

RecordFinding(url, content_type, notes, parent_page, ret) ==
  LET r == Result(url, content_type, notes, parent_page) IN
  /\ result' = r
  /\ IF content_type = "PDF"
       THEN /\ found_pdfs' = Append(found_pdfs, r)
            /\ UNCHANGED found_pages
       ELSE /\ found_pages' = Append(found_pages, r)
            /\ UNCHANGED found_pdfs
  /\ recorded' = Append(recorded, r)
  /\ in_record' = TRUE
  /\ rec_ret' = ret
  /\ pc' = "record_csv"

\* the second half of record_finding: self.append_to_csv(result)
AppendCsv ==
  /\ pc = "record_csv"
  /\ csv_file' = append_to_csv(csv_file, result)
  /\ in_record' = FALSE
  /\ pc' = rec_ret
  /\ event' = "none"
  /\ Quiet
  /\ UNCHANGED <<frontier, found_pages, found_pdfs, result, rec_ret, recorded,
                 csv_exists, progress_file, rows_at_start, env, hist>>

----------------------------------------------------------------------------
(* crawl_site: the loop                                                    *)

\* <= in place of <
LoopCondition_OffByOne == url_queue # <<>> /\ pages_crawled <= max_pages

\* the while condition
LoopCondition == url_queue # <<>> /\ pages_crawled < max_pages

\* appendleft in place of append
Enqueue_Front(queue, link) == <<link>> \o queue

\* the queue after url_queue.append(link)
Enqueue(queue, link) == Append(queue, link)

InQueue(link) == \E i \in 1..Len(url_queue) : url_queue[i] = link

\* the guard without the test: link not in url_queue
LinkAccepted_NoQueueTest(link) ==
  /\ is_valid_url(link)
  /\ variant = "fast" => ~should_skip_url(link)
  /\ link \notin visited_urls

\* the guard under which a discovered link is handled at all
LinkAccepted(link) ==
  /\ is_valid_url(link)
  /\ variant = "fast" => ~should_skip_url(link)
  /\ link \notin visited_urls
  /\ ~InQueue(link)

\* without: if not html_content: continue
AfterFetch_NoSkip(outcome) ==
  CASE outcome = "pdf" -> "direct_pdf"
    [] OTHER           -> "parse"

\* where the thread goes after get_page_content: if not html_content:
\* continue; a pdf content type; otherwise on to the parser
AfterFetch(outcome) ==
  CASE outcome \in FetchFailures -> "loop"
    [] outcome = "pdf"           -> "direct_pdf"
    [] OTHER                     -> "parse"

\* popleft, the visited test, visited.add, the counter, the periodic checkpoint
Dequeue ==
  /\ pc = "loop"
  /\ LoopCondition
  /\ current_url' = Head(url_queue)
  /\ url_queue' = Tail(url_queue)
  /\ dequeued' = Append(dequeued, Head(url_queue))
  /\ IF Head(url_queue) \in visited_urls
       THEN /\ pc' = "loop"
            /\ UNCHANGED <<visited_urls, pages_crawled, progress_file>>
       ELSE /\ visited_urls' = visited_urls \cup {Head(url_queue)}
            /\ pages_crawled' = pages_crawled + 1
            /\ progress_file' =
                 IF (pages_crawled + 1) % ProgressEvery = 0
                   THEN save_progress(pages_crawled + 1, Head(url_queue),
                                      found_pages, found_pdfs)
                   ELSE progress_file
            /\ pc' = "fetch"
  /\ event' = "none"
  /\ Quiet
  /\ slept' = FALSE
  /\ UNCHANGED <<links, enq_order, memfind, csv_exists, csv_file,
                 rows_at_start, env, dup_offered, failed_urls>>

\* get_page_content and the two tests that follow it
Fetch ==
  /\ pc = "fetch"
  /\ \E outcome \in FetchOutcomes :
       /\ pc' = AfterFetch(outcome)
       /\ event' = IF outcome \in FetchFailures \cup {"pdf"}
                     THEN outcome ELSE "none"
       /\ failed_urls' = IF outcome \in FetchFailures
                           THEN failed_urls \cup {current_url}
                           ELSE failed_urls
  /\ fetch_of' = current_url
  /\ parse_attempts' = <<>>
  /\ UNCHANGED <<frontier, memfind, files, env, dup_offered, slept>>

\* a PDF accessed directly: check_pdf_content(current_url), record, continue
DirectPdf ==
  /\ pc = "direct_pdf"
  /\ \E doc \in pdf_docs :
       LET r == PdfAnswers[variant][doc] IN
       /\ event' = PdfEvent(r)
       /\ fetch_of' = current_url
       /\ failed_urls' = IF DownloadFails(variant, doc)
                           THEN failed_urls \cup {current_url}
                           ELSE failed_urls
       /\ IF r.found
            THEN RecordFinding(current_url, "PDF",
                               "PDF document (direct access)", NoUrl, "loop")
            ELSE /\ pc' = "loop"
                 /\ UNCHANGED memfind
  /\ parse_attempts' = <<>>
  /\ UNCHANGED <<frontier, files, env, dup_offered, slept>>

\* parsers = ['html.parser', 'lxml', 'html5lib']
parsers == <<"html.parser", "lxml", "html5lib">>

\* the attempts of safe_parse_html in order: each parser on the content,
\* then html.parser on the content with non-ASCII runs replaced
ParseAttempts ==
  [i \in 1..Len(parsers) |-> <<parsers[i], "content">>]
    \o << <<"html.parser", "cleaned_html">> >>

\* the attempts made when those numbered in fails raise
AttemptsMade(attempts, fails) ==
  IF \E k \in 1..Len(attempts) : k \notin fails
    THEN SubSeq(attempts, 1,
                CHOOSE k \in 1..Len(attempts) :
                  /\ k \notin fails
                  /\ \A j \in 1..(k - 1) : j \in fails)
    ELSE attempts

\* the second try block is missing: None once the three parsers failed
safe_parse_html_NoRetry(fails) ==
  LET made == AttemptsMade(SubSeq(ParseAttempts, 1, Len(parsers)), fails) IN
  [soup |-> Len(made) \notin fails, attempts |-> made]

\* safe_parse_html: the first attempt that does not raise returns a soup;
\* None when every attempt raises
safe_parse_html(fails) ==
  LET made == AttemptsMade(ParseAttempts, fails) IN
  [soup |-> Len(made) \notin fails, attempts |-> made]

\* safe_parse_html: a soup, or None and continue
Parse ==
  /\ pc = "parse"
  /\ \E fails \in SUBSET (1..Len(ParseAttempts)) :
       LET r == safe_parse_html(fails) IN
       /\ pc' = IF r.soup THEN "match" ELSE "loop"
       /\ event' = IF r.soup THEN "none" ELSE "parse_error"
       /\ parse_attempts' = r.attempts
  /\ fetch_of' = NoUrl
  /\ UNCHANGED <<frontier, memfind, files, env, hist>>

\* whether the text of a page holds the address: the pages of the chain
\* site do not
PageMatches == IF layout = "chain" THEN {FALSE} ELSE BOOLEAN

\* soup.get_text(), check_address_in_text, record_finding of an HTML page
Match ==
  /\ pc = "match"
  /\ \E found \in PageMatches :
       IF found
         THEN RecordFinding(current_url, "HTML Page", "HTML page content",
                            NoUrl, "extract")
         ELSE /\ pc' = "extract"
              /\ UNCHANGED memfind
  /\ event' = "none"
  /\ Quiet
  /\ UNCHANGED <<frontier, files, env, hist>>

\* the exception leaves crawl_site, as it would without the try block
ProcessingException_Propagates ==
  /\ pc = "match"
  /\ pc' = "Errored"
  /\ event' = "exception"
  /\ Quiet
  /\ UNCHANGED <<frontier, memfind, files, env, hist>>

\* an exception while reading the soup: except Exception ... continue
ProcessingException ==
  /\ pc = "match"
  /\ pc' = "loop"
  /\ event' = "exception"
  /\ Quiet
  /\ UNCHANGED <<frontier, memfind, files, env, hist>>

\* the one link of a page of the chain site: the root links to /p1, /pi to
\* /pi+1, the last page to nothing
ChainLinks(url) ==
  IF url = crawl_base THEN {ChainUrl[1]}
  ELSE LET i == CHOOSE k \in 1..ChainLen : ChainUrl[k] = url IN
       IF i < ChainLen THEN {ChainUrl[i + 1]} ELSE {}

\* the link sets a page may hold: any URLs of the site, all of them, or
\* the next page of the chain
LinkSets(url) ==
  CASE layout = "exact" -> {site}
    [] layout = "chain" -> {ChainLinks(url)}
    [] OTHER            -> SUBSET site

\* links = self.extract_links(html_content, current_url)
ExtractLinks ==
  /\ pc = "extract"
  /\ \E found_links \in LinkSets(current_url) : links' = found_links
  /\ pc' = "links"
  /\ event' = "none"
  /\ Quiet
  /\ UNCHANGED <<url_queue, visited_urls, pages_crawled, current_url,
                 dequeued, enq_order, memfind, files, env, hist>>

\* one iteration of: for link in links (a set: any order)
ProcessLink ==
  /\ pc = "links"
  /\ \E link \in links :
       /\ links' = links \ {link}
       /\ dup_offered' = (dup_offered \/
                            (link \in visited_urls \/ InQueue(link)))
       /\ IF LinkAccepted(link)
            THEN IF IsPdfLink(link)
                   THEN /\ \E doc \in pdf_docs :
                             LET r == PdfAnswers[variant][doc] IN
                             /\ event' = PdfEvent(r)
                             /\ fetch_of' = link
                             /\ failed_urls' =
                                  IF DownloadFails(variant, doc)
                                    THEN failed_urls \cup {link}
                                    ELSE failed_urls
                             /\ IF r.found
                                  THEN RecordFinding(link, "PDF",
                                         "PDF document (linked)", current_url,
                                         "links")
                                  ELSE /\ pc' = "links"
                                       /\ UNCHANGED memfind
                        /\ UNCHANGED <<url_queue, enq_order>>
                   ELSE /\ url_queue' = Enqueue(url_queue, link)
                        /\ enq_order' = Append(enq_order, link)
                        /\ pc' = "links"
                        /\ event' = "none"
                        /\ fetch_of' = NoUrl
                        /\ UNCHANGED <<memfind, failed_urls>>
            ELSE /\ pc' = "links"
                 /\ event' = "none"
                 /\ fetch_of' = NoUrl
                 /\ UNCHANGED <<url_queue, enq_order, memfind, failed_urls>>
  /\ parse_attempts' = <<>>
  /\ UNCHANGED <<visited_urls, pages_crawled, current_url, dequeued, files,
                 env, slept>>

\* the for loop is exhausted
LinksDone ==
  /\ pc = "links"
  /\ links = {}
  /\ pc' = "sleep"
  /\ event' = "none"
  /\ Quiet
  /\ UNCHANGED <<frontier, memfind, files, env, hist>>

\* time.sleep never returns
Sleep_Hangs ==
  /\ pc = "sleep"
  /\ pc' = "sleep"
  /\ event' = "none"
  /\ Quiet
  /\ slept' = TRUE
  /\ UNCHANGED <<frontier, memfind, files, env, dup_offered, failed_urls>>

\* time.sleep(0.5)
Sleep ==
  /\ pc = "sleep"
  /\ pc' = "loop"
  /\ event' = "none"
  /\ Quiet
  /\ slept' = TRUE
  /\ UNCHANGED <<frontier, memfind, files, env, dup_offered, failed_urls>>

\* the while condition is false: save_progress(pages_crawled, "COMPLETED"),
\* crawl_site returns and main prints the summary
Finish ==
  /\ pc = "loop"
  /\ ~LoopCondition
  /\ progress_file' = save_progress(pages_crawled, "COMPLETED", found_pages,
                                    found_pdfs)
  /\ pc' = "Completed"
  /\ event' = "none"
  /\ Quiet
  /\ UNCHANGED <<frontier, memfind, csv_exists, csv_file, rows_at_start, env,
                 hist>>

\* KeyboardInterrupt: not an Exception, so it leaves crawl_site; main prints
\* the summary and returns
Interrupt ==
  /\ pc \in RunningPcs
  /\ pc' = "Interrupted"
  /\ event' = "interrupt"
  /\ Quiet
  /\ UNCHANGED <<frontier, memfind, files, env, hist>>

\* the program is run again: a new process, the same two files
NewProcess ==
  /\ pc \in TerminalPcs
  /\ runs < MaxRuns
  /\ runs' = runs + 1
  /\ pc' = "new"
  /\ url_queue' = <<>>
  /\ visited_urls' = {}
  /\ pages_crawled' = 0
  /\ current_url' = NoUrl
  /\ links' = {}
  /\ found_pages' = <<>>
  /\ found_pdfs' = <<>>
  /\ result' = Header
  /\ rec_ret' = "loop"
  /\ dequeued' = <<>>
  /\ enq_order' = <<>>
  /\ recorded' = <<>>
  /\ in_record' = FALSE
  /\ event' = "none"
  /\ Quiet
  /\ failed_urls' = {}
  /\ slept' = FALSE
  /\ dup_offered' = FALSE
  /\ UNCHANGED <<files, max_pages, site, variant, crawl_base, layout,
                 pdf_docs, call_arg, call_ret>>

\* one process
Next ==
  \/ Construct
  \/ CrawlStart
  \/ Dequeue
  \/ Fetch
  \/ DirectPdf
  \/ Parse
  \/ Match
  \/ ProcessingException
  \/ ExtractLinks
  \/ ProcessLink
  \/ LinksDone
  \/ Sleep
  \/ AppendCsv
  \/ Finish
  \/ Interrupt

Spec == Init /\ [][Next]_vars

\* successive processes against the same files, on a site whose root page
\* links to one page and one document that can be downloaded and read
SmallSite == {PageA, DocPdf}

InitRuns ==
  /\ InitMem
  /\ InitFiles
  /\ NoCall
  /\ variant = "baseline"
  /\ crawl_base = base_url
  /\ layout = "any"
  /\ pdf_docs = {DocWithout("baseline"), DocWith("baseline")}
  /\ max_pages \in 1..MaxBudget
  /\ site = SmallSite

NextRuns == Next \/ NewProcess

SpecRuns == InitRuns /\ [][NextRuns]_vars

\* a crawler constructed with the default base URL or with another one, on
\* a site whose pages link to that other site, to slusd.us hosts and to a
\* third host
ScopeSite == {OtherPage, PageB, DocPdf, Offsite}

InitScope ==
  /\ InitMem
  /\ csv_exists = FALSE
  /\ csv_file = <<>>
  /\ NoCall
  /\ variant = "baseline"
  /\ crawl_base \in {base_url, OtherBase}
  /\ layout = "any"
  /\ pdf_docs = CrawlDocs("baseline")
  /\ max_pages \in 1..MaxBudget
  /\ site = ScopeSite

SpecScope == InitScope /\ [][Next]_vars

\* the default crawler on the chain site, with a budget that ends the run
\* on a multiple of ProgressEvery, after it, or not before the site is
\* exhausted
InitCadence ==
  /\ InitMem
  /\ InitFiles
  /\ NoCall
  /\ variant = "baseline"
  /\ crawl_base = base_url
  /\ layout = "chain"
  /\ pdf_docs = CrawlDocs("baseline")
  /\ max_pages \in {ProgressEvery, ProgressEvery + 1, ChainLen + 2}
  /\ site = ChainUrls

SpecCadence == InitCadence /\ [][Next]_vars

\* the fast program on a site whose root page links to all of: one
\* document; or one document, one page and one image
InitFast ==
  /\ InitMem
  /\ InitFiles
  /\ NoCall
  /\ variant = "fast"
  /\ crawl_base = base_url
  /\ layout = "exact"
  /\ pdf_docs \in {LaterPageDocs("fast"), CrawlDocs("fast")}
  /\ max_pages \in 1..MaxBudget
  /\ site \in {{DocPdf}, {DocPdf, PageA, AssetUrl}}

SpecFast == InitFast /\ [][Next]_vars

----------------------------------------------------------------------------
(* The crawl without KeyboardInterrupt, on a site whose pages link to each *)
(* other, to themselves and to the root, and on a site with more pages     *)
(* than the budget.  The process is sequential and every request returns   *)
(* or times out (timeout=10, timeout=15), so its next step is always       *)
(* taken: weak fairness of the step.                                       *)

InitLive ==
  /\ InitMem
  /\ csv_exists = FALSE
  /\ csv_file = <<>>
  /\ NoCall
  /\ variant = "baseline"
  /\ crawl_base = base_url
  /\ pdf_docs = {DocWithout("baseline"), DocWith("baseline")}
  /\ max_pages \in 1..MaxBudget
  /\ \/ layout = "any" /\ site = Urls
     \/ layout = "chain" /\ site = ChainUrls

NextLive ==
  \/ Construct
  \/ CrawlStart
  \/ Dequeue
  \/ Fetch
  \/ DirectPdf
  \/ Parse
  \/ Match
  \/ ProcessingException
  \/ ExtractLinks
  \/ ProcessLink
  \/ LinksDone
  \/ Sleep
  \/ AppendCsv
  \/ Finish

SpecLive == InitLive /\ [][NextLive]_vars /\ WF_vars(NextLive)

----------------------------------------------------------------------------
(* should_skip_url called on its own, on every URL text of the universe,   *)
(* and by the fast program's crawl of a site that links to content pages,  *)
(* documents and assets, from the default root or from a root that is      *)
(* itself an asset URL                                                     *)

InitSkip ==
  \/ /\ InitLocals
     /\ pc = "call_skip"
     /\ NoCrawl
     /\ variant = "fast"
     /\ call_arg \in SkipUrlTexts
     /\ call_ret = FALSE
  \/ /\ InitMem
     /\ InitFiles
     /\ NoCall
     /\ variant = "fast"
     /\ crawl_base \in {base_url, AssetUrl}
     /\ layout = "exact"
     /\ pdf_docs = {DocWithout("fast"), DocWith("fast")}
     /\ max_pages \in 1..MaxBudget
     /\ site = {PageA, DocPdf, AssetUrl, AboutUrl, ImagePdf, StyleUrl}

CallShouldSkip ==
  /\ pc = "call_skip"
  /\ pc' = "ret_skip"
  /\ call_ret' = SkipPatternFound(call_arg)
  /\ UNCHANGED <<frontier, memfind, files, hist, event, fetch_of,
                 parse_attempts, runs, max_pages, site, variant, crawl_base,
                 layout, pdf_docs, call_arg>>

NextSkip == CallShouldSkip \/ Next

SpecSkip == InitSkip /\ [][NextSkip]_vars

----------------------------------------------------------------------------
(* The title of a page finding.  A parsed page is the sequence of its      *)
(* title elements in document order; an element is the sequence of its     *)
(* children, each a text node or a tag with children of its own.           *)

None == "<None>"

TextNode(text) == [kind |-> "text", text |-> text, children |-> <<>>]

TagNode(children) == [kind |-> "tag", text |-> "", children |-> children]

\* what a title element may hold: nothing, a text, a tag (empty or holding
\* a text), or a text and a tag in either order
TitleElements ==
  LET texts == {TextNode("Home"), TextNode("News")}
      tags == {TagNode(<<>>), TagNode(<<TextNode("x")>>)}
  IN {<<>>} \cup {<<n>> : n \in texts \cup tags}
       \cup {<<a, b>> : a \in texts, b \in tags}
       \cup {<<b, a>> : a \in texts, b \in tags}

\* the parsed pages: no title element, one, or two
Soups == UNION {[1..k -> TitleElements] : k \in 0..2}

\* Tag.string: the only child when it is a text, the string of the only
\* child when it is a tag, None when there is no child or more than one
RECURSIVE TagString(_)
TagString(children) ==
  IF Len(children) # 1 THEN None
  ELSE IF children[1].kind = "text" THEN children[1].text
  ELSE TagString(children[1].children)

\* title = soup.title.string if soup.title else 'No title'
title(soup) ==
  IF soup # <<>> THEN TagString(soup[1]) ELSE "No title"

\* the 'Title' cell that record_finding stores and csv.DictWriter writes:
\* None is written as the empty string
TitleCell(value) == IF value = None THEN "" ELSE value

InitTitle ==
  /\ InitLocals
  /\ pc = "call_title"
  /\ NoCrawl
  /\ variant \in Variants
  /\ call_arg \in Soups
  /\ call_ret = ""

\* the title expression of crawl_site and the cell written for it
CallTitle ==
  /\ pc = "call_title"
  /\ pc' = "ret_title"
  /\ call_ret' = TitleCell(title(call_arg))
  /\ UNCHANGED <<frontier, memfind, files, hist, event, fetch_of,
                 parse_attempts, runs, max_pages, site, variant, crawl_base,
                 layout, pdf_docs, call_arg>>

NextTitle == CallTitle

SpecTitle == InitTitle /\ [][NextTitle]_vars

----------------------------------------------------------------------------
(* check_address_in_text called on its own, on every text of the universe  *)

InitText ==
  /\ InitLocals
  /\ pc = "call_text"
  /\ NoCrawl
  /\ variant \in Variants
  /\ call_arg \in Texts(variant)
  /\ call_ret = NotFound(0)

CallCheckAddress ==
  /\ pc = "call_text"
  /\ pc' = "ret_text"
  /\ call_ret' = check_address_in_text(variant, call_arg)
  /\ UNCHANGED <<frontier, memfind, files, hist, event, fetch_of,
                 parse_attempts, runs, max_pages, site, variant, crawl_base,
                 layout, pdf_docs, call_arg>>

NextText == CallCheckAddress

SpecText == InitText /\ [][NextText]_vars

----------------------------------------------------------------------------
(* check_pdf_content called on its own, on every document of the universe  *)

InitPdf ==
  /\ InitLocals
  /\ pc = "call_pdf"
  /\ NoCrawl
  /\ variant \in Variants
  /\ call_arg \in Docs(variant)
  /\ call_ret = NotFound(0)

CallCheckPdf ==
  /\ pc = "call_pdf"
  /\ pc' = "ret_pdf"
  /\ call_ret' = check_pdf_content(variant, call_arg)
  /\ UNCHANGED <<frontier, memfind, files, hist, event, fetch_of,
                 parse_attempts, runs, max_pages, site, variant, crawl_base,
                 layout, pdf_docs, call_arg>>

NextPdf == CallCheckPdf

SpecPdf == InitPdf /\ [][NextPdf]_vars

----------------------------------------------------------------------------
(* Properties                                                              *)

NoDup(seq) == \A i, j \in 1..Len(seq) : i # j => seq[i] # seq[j]

Range(seq) == {seq[i] : i \in 1..Len(seq)}

IsPrefix(s, t) == Len(s) <= Len(t) /\ SubSeq(t, 1, Len(s)) = s

\* the rows appended to the findings file since this crawler was constructed
RunRows == SubSeq(csv_file, rows_at_start + 1, Len(csv_file))

CountType(seq, content_type) ==
  Cardinality({i \in 1..Len(seq) : seq[i].Type = content_type})

\* C1: no URL is popped from the queue twice in a run, every popped URL is
\* processed (it is in visited_urls), and the queue never holds a duplicate
\* or a visited URL, whatever links and fetch outcomes the site produces.
NoRevisit ==
  /\ NoDup(dequeued)
  /\ Range(dequeued) = visited_urls
  /\ NoDup(url_queue)
  /\ \A i \in 1..Len(url_queue) : url_queue[i] \notin visited_urls

\* three URLs were dequeued and a link to a visited or queued URL was refused
NoRevisitWitness == dup_offered /\ Len(dequeued) = 3

\* C2: after an interrupt the progress file holds a checkpoint written for
\* the interruption, whose count is the number of URLs dequeued so far.
InterruptWritesCheckpoint ==
  pc = "Interrupted" =>
    /\ progress_file # <<>>
    /\ progress_file[1].current_url = "INTERRUPTED"
    /\ progress_file[1].pages_crawled = Len(dequeued)

\* C3: a step that meets a per-URL error (fetch, decode, parse, PDF read,
\* processing exception) records nothing and leaves the thread in the loop
\* (at its head, or at the next link); the loop is left only by an interrupt
\* or when its condition is false; at the head with a pending URL and budget
\* left, the next step of the crawl dequeues that URL.
ErrorsSkipUrl ==
  [][ /\ event' \in ErrorEvents =>
           /\ pc' \in {"loop", "links"}
           /\ recorded' = recorded
           /\ csv_file' = csv_file
      /\ (pc \in RunningPcs /\ pc' \notin RunningPcs) =>
           \/ event' = "interrupt"
           \/ pc = "loop" /\ ~LoopCondition /\ pc' = "Completed"
      /\ (pc = "loop" /\ LoopCondition /\ event' # "interrupt") =>
           /\ dequeued' = Append(dequeued, Head(url_queue))
           /\ pc' = "fetch"
    ]_vars

\* an error was met and the thread is at the loop head with a URL pending
ErrorsSkipUrlWitness ==
  /\ event \in ErrorEvents
  /\ pc = "loop"
  /\ LoopCondition

\* C4: when the run has ended, the progress file holds a checkpoint whose
\* counts are the number of URLs dequeued and the numbers of HTML Page and
\* PDF findings recorded in the run.
FinalCheckpointTrue ==
  pc \in TerminalPcs =>
    /\ progress_file # <<>>
    /\ progress_file[1].pages_crawled = Len(dequeued)
    /\ progress_file[1].found_pages = CountType(recorded, "HTML Page")
    /\ progress_file[1].found_pdfs = CountType(recorded, "PDF")

\* C5: no two findings recorded in a run have the same URL.
FindingUrlsDistinct ==
  \A i, j \in 1..Len(recorded) :
    i # j => recorded[i].URL # recorded[j].URL

\* C6: the URLs are dequeued in the order in which they were enqueued: the
\* dequeued URLs followed by the queue are the enqueue history, so a URL
\* enqueued behind a pending one is never dequeued before it.
BreadthFirst == dequeued \o url_queue = enq_order

\* PageB was discovered while PageA was pending, and PageA was dequeued first
BreadthFirstWitness ==
  /\ dequeued = <<base_url, PageA>>
  /\ url_queue = <<PageB>>
  /\ enq_order = <<base_url, PageA, PageB>>
  /\ pc = "fetch"

\* C7: the step in which the fetch of the dequeued URL fails returns to the
\* loop head, records nothing, enqueues nothing; no finding names the URL;
\* the URL is in visited_urls and is counted in pages_crawled.
FetchFailureSkips ==
  [][ event' \in FetchFailures =>
        /\ pc = "fetch"
        /\ pc' = "loop"
        /\ recorded' = recorded
        /\ found_pages' = found_pages
        /\ found_pdfs' = found_pdfs
        /\ csv_file' = csv_file
        /\ url_queue' = url_queue
        /\ enq_order' = enq_order
        /\ \A i \in 1..Len(recorded') :
             /\ recorded'[i].URL # current_url'
             /\ recorded'[i].ParentPage # current_url'
        /\ current_url' \in visited_urls'
        /\ pages_crawled' = Cardinality(visited_urls')
    ]_vars

\* the fetch of the second URL failed after the root page was processed
FetchFailureSkipsWitness ==
  /\ event \in FetchFailures
  /\ pc = "loop"
  /\ current_url = PageA
  /\ pages_crawled = 2

\* C8: the number of URLs dequeued and visited never exceeds max_pages, and
\* a step from the loop head ends the loop exactly when the queue is empty
\* or the count has reached max_pages.
PageBudget ==
  /\ [](/\ pages_crawled <= max_pages
        /\ Cardinality(visited_urls) = pages_crawled
        /\ Len(dequeued) = pages_crawled)
  /\ [][ (pc = "loop" /\ event' # "interrupt") =>
           ((pc' = "Completed") <=>
              (url_queue = <<>> \/ pages_crawled >= max_pages))
       ]_vars

\* the loop ended on the budget with a URL still pending
PageBudgetWitness ==
  /\ pc = "Completed"
  /\ url_queue # <<>>
  /\ pages_crawled = max_pages

\* C9: once the crawler is constructed, the rows appended to the file are
\* the results of the completed record_finding calls, in call order; the
\* in-memory lists hold one entry per call; and when no call is in progress
\* the number of rows appended equals the two list lengths together.  A call
\* cut short by an interrupt stays in progress.
RecordDurable ==
  pc # "new" =>
    /\ Len(recorded) = Len(found_pages) + Len(found_pdfs)
    /\ Len(found_pages) = CountType(recorded, "HTML Page")
    /\ Len(found_pdfs) = CountType(recorded, "PDF")
    /\ IsPrefix(RunRows, recorded)
    /\ Len(RunRows) = Len(recorded) - (IF in_record THEN 1 ELSE 0)
    /\ in_record <=> (pc = "record_csv" \/ (pc = "Interrupted" /\
                                            Len(RunRows) < Len(recorded)))

\* the run was cut after two completed records: both rows are in the file
RecordDurableWitness ==
  /\ pc = "Interrupted"
  /\ ~in_record
  /\ Len(RunRows) = 2
  /\ found_pages # <<>>
  /\ found_pdfs # <<>>

\* C10: an existing findings file starts with the header and holds it once,
\* and no step (construction, append, a later process) changes or removes a
\* row already in the file.
StoreInitIdempotent ==
  /\ [](csv_exists =>
          /\ csv_file # <<>>
          /\ csv_file[1] = Header
          /\ Cardinality({i \in 1..Len(csv_file) : csv_file[i] = Header}) = 1)
  /\ [][IsPrefix(csv_file, csv_file')]_vars

\* a second crawler was constructed on a file that held rows of the first
StoreInitIdempotentWitness ==
  /\ runs = 2
  /\ pc = "start"
  /\ Len(csv_file) >= 3
  /\ rows_at_start = Len(csv_file)

----------------------------------------------------------------------------
(* Properties of check_address_in_text, under SpecText                     *)

\* the numbers of the patterns that match a text somewhere
Matching(v, text) ==
  {i \in 1..Len(address_patterns(v)) :
     Search(address_patterns(v)[i], text).found}

Min(S) == CHOOSE m \in S : \A n \in S : m <= n

\* C16: when more than one pattern of the ordered set matches the text,
\* check_address_in_text returns found with the text matched by the
\* lowest-numbered pattern that matches, and that pattern is the last one
\* it evaluates.
PatternPriority ==
  (pc = "ret_text" /\ Cardinality(Matching(variant, call_arg)) > 1) =>
    LET first == Min(Matching(variant, call_arg)) IN
      /\ call_ret.found
      /\ call_ret.matched_text =
           Search(address_patterns(variant)[first], call_arg).group
      /\ call_ret.tried = first

\* a text matched by several patterns, the first pattern not among them,
\* and a later pattern that would have returned another text
PatternPriorityWitness ==
  /\ pc = "ret_text"
  /\ Cardinality(Matching(variant, call_arg)) > 1
  /\ call_ret.tried > 1
  /\ \E i \in Matching(variant, call_arg) :
       Search(address_patterns(variant)[i], call_arg).group
         # call_ret.matched_text

\* the literal house number of the fast program's address
HouseNumber == <<"1", "4", "7", "3", "5">>

----------------------------------------------------------------------------
(* Properties of check_pdf_content, under SpecPdf                          *)

\* the numbers of the pages of a document that can be read
Readable(pages) == {i \in 1..Len(pages) : pages[i].ok}

\* the texts of the pages numbered in S, concatenated in page order
RECURSIVE ConcatPages(_, _)
ConcatPages(pages, S) ==
  IF S = {} THEN <<>>
  ELSE LET last == CHOOSE m \in S : \A n \in S : n <= m IN
       ConcatPages(pages, S \ {last}) \o pages[last].text

\* C18: in the baseline program, for a document that was downloaded and
\* opened, whatever pages fail text extraction, check_pdf_content returns
\* (no exception leaves it) and the one text it matches is the concatenation
\* in page order of the texts of exactly the pages that did not fail.
PartialDocument ==
  (/\ pc = "ret_pdf"
   /\ variant = "baseline"
   /\ call_arg.get = "ok"
   /\ call_arg.reader = "ok") =>
    /\ call_ret.outcome = "read"
    /\ call_ret.checked =
         <<ConcatPages(call_arg.pages, Readable(call_arg.pages))>>
    /\ call_ret.found =
         check_address_in_text("baseline", call_ret.checked[1]).found

\* pages 3 and 7 of ten failed: the text is pages 1,2,4,5,6,8,9,10
PartialDocumentWitness ==
  /\ pc = "ret_pdf"
  /\ variant = "baseline"
  /\ Len(call_arg.pages) = 10
  /\ Readable(call_arg.pages) = (1..10) \ {3, 7}
  /\ call_ret.checked = <<<<"1", "2", "4", "5", "6", "8", "9", "0">>>>

----------------------------------------------------------------------------
(* Properties of the crawl loop, continued                                 *)

\* a document-type link: suffix .pdf in any case
DocumentTypeLink(link) == Suffix(link) \in {".pdf", ".PDF"}

\* C12: no document-type link is ever put into the queue; a discovered
\* document-type link that passes the guard of the link loop is requested
\* in the very step that iterates it, which leaves the queue alone and can
\* only record that link; a URL served with a PDF content type goes to the
\* direct-document branch, which extracts no links, leaves the queue alone
\* and returns to the loop.
LeafDocuments ==
  /\ [](\A i \in 1..Len(enq_order) : ~DocumentTypeLink(enq_order[i]))
  /\ [][ /\ \A link \in links \ links' :
             (pc = "links" /\ pc' # "Interrupted" /\ LinkAccepted(link)
                /\ DocumentTypeLink(link)) =>
               /\ fetch_of' = link
               /\ url_queue' = url_queue
               /\ pc' \in {"links", "record_csv"}
               /\ pc' = "record_csv" =>
                    (result'.URL = link /\ rec_ret' = "links")
         /\ event' = "pdf" => pc' = "direct_pdf"
         /\ pc = "direct_pdf" =>
               /\ url_queue' = url_queue
               /\ enq_order' = enq_order
               /\ links' = links
               /\ pc' \in {"loop", "record_csv", "Interrupted"}
               /\ pc' = "record_csv" =>
                    (result'.URL = current_url /\ rec_ret' = "loop") ]_vars

\* a linked document was requested and matched while its page's links were
\* iterated, and it is not in the queue
LeafDocumentsWitness ==
  /\ pc = "record_csv"
  /\ rec_ret = "links"
  /\ fetch_of = DocPdf
  /\ result.URL = DocPdf
  /\ DocPdf \notin Range(enq_order)
  /\ Len(url_queue) >= 1

\* C14: the loop head is reached for a further dequeue only through the
\* delay step: whenever a step of an iteration returns to the loop head with
\* the loop condition true, that step is time.sleep.
RateLimited ==
  [][ (pc' = "loop" /\ pc \in RunningPcs /\ LoopCondition') =>
        pc = "sleep" ]_vars

\* the attempts of markup extraction as the code makes them
AttemptsPrimaryRetried ==
  << <<"html.parser", "content">>, <<"lxml", "content">>,
     <<"html5lib", "content">>, <<"html.parser", "cleaned_html">> >>

\* the attempts with the most permissive parser, the last of the fallbacks
\* of decreasing strictness, retried on the cleaned content
AttemptsPermissiveRetried ==
  << <<"html.parser", "content">>, <<"lxml", "content">>,
     <<"html5lib", "content">>, <<"html5lib", "cleaned_html">> >>

\* what a step of markup extraction does when its attempts follow expected:
\* it makes a non-empty prefix of them, it ends at the matcher or, when it
\* failed, at the loop head after all attempts, with no finding, no link and
\* no queue entry added
ParseStep(expected) ==
  (pc = "parse" /\ pc' # "Interrupted") =>
    /\ parse_attempts' # <<>>
    /\ IsPrefix(parse_attempts', expected)
    /\ pc' \in {"match", "loop"}
    /\ pc' = "match" <=> event' = "none"
    /\ pc' = "loop" <=> event' = "parse_error"
    /\ event' = "parse_error" =>
         /\ parse_attempts' = expected
         /\ UNCHANGED <<recorded, found_pages, found_pdfs, csv_file, links,
                        url_queue, enq_order>>
         /\ links = {}

\* C19 as stated: after the parsers in order, the most permissive parser is
\* retried on the content stripped of non-ASCII characters.
ResilientParsePermissive == [][ParseStep(AttemptsPermissiveRetried)]_vars

\* C19: markup extraction never raises; it tries html.parser, lxml and
\* html5lib in order, then html.parser again on the content with non-ASCII
\* runs replaced; when every attempt fails the page yields no finding and no
\* links and the crawl goes on with the next iteration.
ResilientParse == [][ParseStep(AttemptsPrimaryRetried)]_vars

\* every attempt failed on a page, and the loop goes on to the next URL
ResilientParseWitness ==
  /\ pc = "loop"
  /\ event = "parse_error"
  /\ Len(parse_attempts) = 4
  /\ LoopCondition

\* C20: no step requests a URL whose fetch has failed earlier in the run,
\* and no step puts such a URL into the queue.
NoRetry ==
  [][ /\ fetch_of' # NoUrl => fetch_of' \notin failed_urls
      /\ enq_order' # enq_order =>
           enq_order'[Len(enq_order')] \notin failed_urls ]_vars

\* the registered domain of a host: its last two labels
RegisteredDomain(labels) == SubSeq(labels, Len(labels) - 1, Len(labels))

\* host is a proper subdomain of the registered domain reg
IsSubdomainOf(host, reg) ==
  /\ Len(host) > Len(reg)
  /\ SubSeq(host, Len(host) - Len(reg) + 1, Len(host)) = reg

\* isInScope(url, targetHost): the host equals the target host, is empty, or
\* is a subdomain of the target's registered domain
isInScope(url, target) ==
  \/ netloc(url) = netloc(target)
  \/ netloc(url) = <<>>
  \/ IsSubdomainOf(netloc(url), RegisteredDomain(netloc(target)))

\* C15: whatever base URL the crawler was constructed with, every URL put
\* into the queue and every linked document requested during link discovery
\* is in scope with respect to that base URL.
InScopeOnly ==
  /\ [](\A i \in 1..Len(enq_order) : isInScope(enq_order[i], crawl_base))
  /\ [][ (pc = "links" /\ fetch_of' # NoUrl) =>
           isInScope(fetch_of', crawl_base) ]_vars

\* C13: in a completed run of the fast program on a root page that holds no
\* address and whose only link is a PDF with the address on a readable page
\* other than the first, once the root page's links were all iterated
\* there is exactly one finding: of type PDF, for the PDF's URL, with the
\* root URL as Parent Page, and it is in the file; and the PDF's URL is
\* never in the queue or in the visited set.
LinkedDocumentFound ==
  /\ (/\ pc = "Completed"
      /\ variant = "fast"
      /\ site = {DocPdf}
      /\ layout = "exact"
      /\ pdf_docs = LaterPageDocs("fast")
      /\ slept
      /\ found_pages = <<>>) =>
       /\ recorded =
            <<Result(DocPdf, "PDF", "PDF document (linked)", crawl_base)>>
       /\ found_pdfs = recorded
       /\ RunRows = recorded
  /\ variant = "fast" =>
       /\ DocPdf \notin visited_urls
       /\ DocPdf \notin Range(enq_order)

\* such a run has completed with its one finding
LinkedDocumentFoundWitness ==
  /\ pc = "Completed"
  /\ variant = "fast"
  /\ site = {DocPdf}
  /\ pdf_docs = LaterPageDocs("fast")
  /\ slept
  /\ found_pages = <<>>
  /\ Len(recorded) = 1
  /\ dequeued = <<crawl_base>>

\* the checkpoint record of the state after a step, for a given URL field
Snapshot(url) ==
  << [pages_crawled |-> pages_crawled', current_url |-> url,
      found_pages |-> Len(found_pages'), found_pdfs |-> Len(found_pdfs')] >>

\* a step that brings the visited count to a multiple of ProgressEvery
ReachesMultiple ==
  /\ pages_crawled' = pages_crawled + 1
  /\ pages_crawled' % ProgressEvery = 0

\* the file holds at most one record
SingleSnapshot == Len(progress_file) <= 1

\* the periodic checkpoints, the checkpoint of a run that ends by its loop
\* condition, and no other write
CadenceOfCompletedRun ==
  [][ /\ ReachesMultiple => progress_file' = Snapshot(current_url')
      /\ pc' = "Completed" => progress_file' = Snapshot("COMPLETED")
      /\ progress_file' # progress_file =>
           (ReachesMultiple \/ pc' = "Completed") ]_vars

\* C11: a checkpoint is written in each step that brings the visited count
\* to a multiple of 50 and in the step that ends the crawl (completed,
\* interrupted or errored); every write leaves exactly the one latest
\* record in the file, and nothing else writes the file.
CheckpointCadence ==
  /\ []SingleSnapshot
  /\ [][ /\ ReachesMultiple => progress_file' = Snapshot(current_url')
         /\ (pc' \in TerminalPcs /\ pc \notin TerminalPcs) =>
              \E status \in {"COMPLETED", "INTERRUPTED", "ERRORED"} :
                progress_file' = Snapshot(status)
         /\ progress_file' # progress_file =>
              (ReachesMultiple \/ pc' \in TerminalPcs) ]_vars

\* the second periodic checkpoint has replaced the first
CadenceSecondSnapshot ==
  /\ pc = "fetch"
  /\ progress_file = save_progress(2 * ProgressEvery, current_url,
                                   found_pages, found_pdfs)

----------------------------------------------------------------------------
(* Properties of the fast program's check_pdf_content, under SpecPdf       *)

\* C21: in the fast program, when the HEAD probe answers and declares a
\* content length of more than 50 * 1024 * 1024 bytes, only the HEAD request
\* is issued, the call reports the document as skipped and returns not
\* found; when it declares at most that, or declares no length, the GET is
\* issued and the document is not reported as skipped.
SizeCeiling ==
  (pc = "ret_pdf" /\ variant = "fast" /\ call_arg.head = "ok") =>
    IF call_arg.declared /\ call_arg.length > 50 * 1024 * 1024
      THEN /\ call_ret.requests = <<"HEAD">>
           /\ call_ret.outcome = "skipped"
           /\ ~call_ret.found
      ELSE /\ call_ret.requests = <<"HEAD", "GET">>
           /\ call_ret.outcome # "skipped"

\* a document one byte over the ceiling, with the address on a readable
\* page, was skipped
SizeCeilingWitness ==
  /\ pc = "ret_pdf"
  /\ variant = "fast"
  /\ call_arg.declared
  /\ call_arg.length = 50 * 1024 * 1024 + 1
  /\ \E i \in 1..Len(call_arg.pages) :
       /\ call_arg.pages[i].ok
       /\ check_address_in_text("fast", call_arg.pages[i].text).found
  /\ call_ret.outcome = "skipped"

\* the baseline's way of matching a document, with the fast program's
\* patterns: the texts of the readable pages are concatenated in page order
\* and the concatenation is matched once
MatchesConcatenation(pages) ==
  CheckPatterns(address_patterns_juniper,
                ConcatPages(pages, Readable(pages)), 1).found

\* C27: in the fast program, for every document that is downloaded and
\* opened (whatever its page texts and whichever pages fail extraction), the
\* per-page scan with pre-check and early return reports found exactly when
\* the concatenation of the readable pages in order holds the address, also
\* when the address straddles a page boundary.
EarlyReturnEquivalent ==
  (/\ pc = "ret_pdf"
   /\ variant = "fast"
   /\ call_ret.outcome = "read") =>
    call_ret.found = MatchesConcatenation(call_arg.pages)

\* the per-page scan never reports an address the concatenation lacks
EarlyReturnSound ==
  (/\ pc = "ret_pdf"
   /\ variant = "fast"
   /\ call_ret.outcome = "read"
   /\ call_ret.found) =>
    MatchesConcatenation(call_arg.pages)

----------------------------------------------------------------------------
(* Properties of should_skip_url, under SpecSkip                           *)

EndsIn(chars, ending) ==
  /\ Len(chars) >= Len(ending)
  /\ SubSeq(chars, Len(chars) - Len(ending) + 1, Len(chars)) = ending

\* a URL that ends in .css, .js, .png or .ico, or contains /images/
AssetText(chars) ==
  \/ \E ending \in {<<".", "c", "s", "s">>, <<".", "j", "s">>,
                     <<".", "p", "n", "g">>, <<".", "i", "c", "o">>} :
       EndsIn(chars, ending)
  \/ Contains(chars, <<"/", "i", "m", "a", "g", "e", "s", "/">>)

\* a URL whose path is /about-us
AboutText(chars) ==
  EndsIn(chars, <<".", "u", "s", "/", "a", "b", "o", "u", "t", "-", "u", "s">>)

\* C22: should_skip_url is true of every URL that ends in .css, .js, .png or
\* .ico and of every URL that contains /images/, and false of /about-us; in
\* the crawl no such asset link is ever enqueued or requested as a linked
\* document, while the /about-us link is enqueued when it is new; the
\* filter is not applied to the URL taken from the queue: a new URL taken
\* from the queue is fetched, also when the root is itself an asset URL.
SkipFilter ==
  /\ [](pc = "ret_skip" =>
         /\ AssetText(call_arg) => call_ret = TRUE
         /\ AboutText(call_arg) => call_ret = FALSE)
  /\ [](\A i \in 2..Len(enq_order) : ~AssetText(Chars(enq_order[i])))
  /\ []((fetch_of # NoUrl /\ AssetText(Chars(fetch_of))) =>
         (fetch_of = current_url /\ current_url = crawl_base))
  /\ [][ /\ \A link \in links \ links' :
             (/\ pc = "links"
              /\ pc' # "Interrupted"
              /\ AboutText(Chars(link))
              /\ link \notin visited_urls
              /\ ~InQueue(link)) => url_queue' = Append(url_queue, link)
         /\ (dequeued' # dequeued /\ Head(url_queue) \notin visited_urls) =>
              pc' = "fetch"
         /\ (pc = "fetch" /\ pc' # "Interrupted") =>
              fetch_of' = current_url ]_vars

\* the root is an asset URL and was fetched and parsed; of its links the
\* /about-us page is in the queue and the assets are not
SkipFilterWitness ==
  /\ pc = "sleep"
  /\ crawl_base = AssetUrl
  /\ current_url = AssetUrl
  /\ {ImagePdf, StyleUrl} \subseteq site
  /\ InQueue(AboutUrl)
  /\ ~InQueue(ImagePdf)
  /\ ~InQueue(StyleUrl)

----------------------------------------------------------------------------
(* Properties of the crawl loop, under Spec                                *)

\* C24: the step of the link loop that requests and matches a linked
\* document leaves the visited set, the queue, the page counter, the
\* checkpoint file and the page findings as they are; it records nothing or
\* one PDF finding of that link, and the write of that finding to the CSV
\* file that follows changes none of them either.
LeafFrame ==
  [][ /\ \A link \in links \ links' :
           (/\ pc = "links"
            /\ pc' # "Interrupted"
            /\ LinkAccepted(link)
            /\ DocumentTypeLink(link)) =>
             /\ fetch_of' = link
             /\ visited_urls' = visited_urls
             /\ url_queue' = url_queue
             /\ pages_crawled' = pages_crawled
             /\ progress_file' = progress_file
             /\ found_pages' = found_pages
             /\ csv_file' = csv_file
             /\ \/ recorded' = recorded
                \/ /\ Len(recorded') = Len(recorded) + 1
                   /\ SubSeq(recorded', 1, Len(recorded)) = recorded
                   /\ recorded'[Len(recorded')].URL = link
                   /\ recorded'[Len(recorded')].Type = "PDF"
      /\ (pc = "record_csv" /\ rec_ret = "links" /\ pc' = "links") =>
             /\ visited_urls' = visited_urls
             /\ url_queue' = url_queue
             /\ pages_crawled' = pages_crawled
             /\ progress_file' = progress_file
             /\ recorded' = recorded
             /\ Len(csv_file') = Len(csv_file) + 1
             /\ SubSeq(csv_file', 1, Len(csv_file)) = csv_file ]_vars

\* the root page's linked document was requested, matched and written: one
\* page counts as crawled, and the document is neither visited nor queued
LeafFrameWitness ==
  /\ pc = "links"
  /\ pages_crawled = 1
  /\ visited_urls = {base_url}
  /\ Len(recorded) = 1
  /\ recorded[1].URL = DocPdf
  /\ recorded[1].ParentPage = base_url
  /\ csv_file[Len(csv_file)].URL = DocPdf
  /\ ~InQueue(DocPdf)
  /\ progress_file = <<>>

\* the findings of this process: those appended in memory and, once the
\* crawler is constructed, the rows it appended to the CSV file
Findings ==
  Range(recorded) \cup Range(found_pages) \cup Range(found_pdfs)
    \cup (IF pc = "new" THEN {} ELSE Range(RunRows))

\* C26: every Finding recorded by the process has Type 'HTML Page' or 'PDF';
\* an 'HTML Page' Finding has an empty Parent Page and a visited URL; a 'PDF'
\* Finding with a Parent Page has that page in the visited set, and a 'PDF'
\* Finding without one has its own URL in the visited set; and at the step
\* that records a Finding its Parent Page, when not empty, is the URL being
\* processed, and otherwise its own URL is.
Provenance ==
  /\ [](\A f \in Findings :
          /\ f.Type \in {"HTML Page", "PDF"}
          /\ f.Type = "HTML Page" =>
               (f.ParentPage = NoUrl /\ f.URL \in visited_urls)
          /\ (f.Type = "PDF" /\ f.ParentPage # NoUrl) =>
               f.ParentPage \in visited_urls
          /\ (f.Type = "PDF" /\ f.ParentPage = NoUrl) =>
               f.URL \in visited_urls)
  /\ [][ recorded' # recorded =>
           /\ Len(recorded') = Len(recorded) + 1
           /\ current_url' = current_url
           /\ LET f == recorded'[Len(recorded')] IN
                IF f.ParentPage = NoUrl
                  THEN f.URL = current_url
                  ELSE f.ParentPage = current_url /\ f.Type = "PDF" ]_vars

\* a page, a document linked from it and a document fetched directly have
\* all been recorded and written
ProvenanceWitness ==
  /\ pc = "loop"
  /\ \E f \in Findings : f.Type = "HTML Page"
  /\ \E f \in Findings :
       f.Type = "PDF" /\ f.ParentPage # NoUrl /\ f.URL \notin visited_urls
  /\ \E f \in Findings : f.Type = "PDF" /\ f.ParentPage = NoUrl
  /\ Len(RunRows) = 3

----------------------------------------------------------------------------
(* Properties of the title of a page finding, under SpecTitle              *)

\* the text of an element: the texts of its descendants in document order
RECURSIVE ElementText(_)
ElementText(children) ==
  IF children = <<>> THEN ""
  ELSE (IF Head(children).kind = "text"
          THEN Head(children).text
          ELSE ElementText(Head(children).children))
       \o ElementText(Tail(children))

\* C23: the Title of an 'HTML Page' Finding is the text of the first title
\* element of the page, and is empty when the page has no title element.
TitleOfFinding ==
  pc = "ret_title" =>
    call_ret = IF call_arg = <<>> THEN "" ELSE ElementText(call_arg[1])

\* a page whose first title element holds one text has that text as Title
TitleOfPlainTitle ==
  (/\ pc = "ret_title"
   /\ call_arg # <<>>
   /\ Len(call_arg[1]) = 1
   /\ call_arg[1][1].kind = "text") =>
    call_ret = call_arg[1][1].text

\* a page without a title element has the Title 'No title'
TitleOfUntitledPage ==
  (pc = "ret_title" /\ call_arg = <<>>) => call_ret = "No title"

----------------------------------------------------------------------------
(* Termination, under SpecLive                                             *)

\* C25: without an interrupt, on a site with cycles and on a site with more
\* pages than the budget, the crawl reaches Completed, and the loop body is
\* never entered more than max_pages times.
Terminates ==
  /\ <>(pc = "Completed")
  /\ [](Len(dequeued) <= max_pages)

\* the crawl completed with its budget used up and URLs still in the queue
TerminatesWitness ==
  /\ pc = "Completed"
  /\ Len(dequeued) = max_pages
  /\ pages_crawled = max_pages
  /\ url_queue # <<>>

\* the crawl of the cyclic site completed with the queue empty and budget
\* to spare
TerminatesEmptyQueue ==
  /\ pc = "Completed"
  /\ layout = "any"
  /\ url_queue = <<>>
  /\ pages_crawled < max_pages

====
